---- MODULE Spec2Model ----
(***************************************************************************)
(* A model of package sqlhelper (q.go): the bulk-load wrapper WrapCopyIn,  *)
(* the INSERT builder Query (NewQuery, InsertInto, Copy, String) and the   *)
(* reflective field extractor StructToKVs / getName.                       *)
(*                                                                         *)
(* Text is modelled as TLA+ strings (concatenated with \o) where the code  *)
(* only appends, and as sequences of one-character strings where the code  *)
(* inspects characters (field names and struct tags).                      *)
(***************************************************************************)
EXTENDS Integers, Sequences, FiniteSets, TLC

VARIABLES
    \* ---- WrapCopyIn: one invocation ----
    wpc,        \* position inside WrapCopyIn
    tx,         \* local tx: TRUE once db.Begin returned a transaction
    st,         \* local st: TRUE when it holds a non-nil statement handle
    err,        \* the named result err
    ret,        \* what the caller received (Nil until the function returns)
    calls,      \* history: the calls WrapCopyIn has made, in order
    outcome,    \* history: what each step returned
    \* ---- Query builders ----
    queries,    \* the *Query objects allocated so far: [buf, Syntax]
    bufs,       \* the strings.Builder buffers, by buffer id
    ninserts,   \* history: the number of InsertInto calls made
    lastOp,     \* history: the last Query operation and the texts before it
    copiedFrom, \* history: the builder each builder was copied from (0: NewQuery)
    \* ---- StructToKVs ----
    kvIn,       \* the argument v of the last StructToKVs call
    kvOut       \* its result: status, keys, values

wvars == <<wpc, tx, st, err, ret, calls, outcome>>
qvars == <<queries, bufs, ninserts, lastOp, copiedFrom>>
kvars == <<kvIn, kvOut>>
vars  == <<wvars, qvars, kvars>>

\* ------------------------------------------------------------------ bounds
MaxRows    == 3   \* rows a callback appends
NumErrs    == 2   \* distinct error values each call may return
MaxQueries == 2   \* builders alive at once
MaxInserts == 2   \* InsertInto calls in one run of the builder model
LongLen    == 10  \* columns of the long column list (two-digit $n)
MaxFields  == 2   \* fields of a record

\* ------------------------------------------------------------- WrapCopyIn
Nil == <<>>
Errs(op) == {<<op, i>> : i \in 1..NumErrs}
Results(op) == {Nil} \cup Errs(op)
NotRun == <<"none">>

Count(s, c) == Cardinality({i \in 1..Len(s) : s[i] = c})
Pos(s, c) == CHOOSE i \in 1..Len(s) : s[i] = c

WInit ==
    /\ wpc = "begin"
    /\ tx = FALSE
    /\ st = FALSE
    /\ err = Nil
    /\ ret = Nil
    /\ calls = <<>>
    /\ outcome = [s \in {"begin", "prepare", "fn", "exec", "rollback", "commit"} |-> NotRun]

\* q.go:140-142   if tx, err = db.Begin(); err != nil { return }
Begin ==
    /\ wpc = "begin"
    /\ \E r \in Results("Begin") :
        /\ calls' = Append(calls, "Begin")
        /\ outcome' = [outcome EXCEPT !["begin"] = r]
        /\ err' = r
        /\ tx' = (r = Nil)
        /\ IF r # Nil
             THEN wpc' = "done" /\ ret' = r
             ELSE wpc' = "prepare" /\ ret' = ret
    /\ UNCHANGED st
    /\ UNCHANGED <<qvars, kvars>>

\* Mutant of Prepare: the early return on a prepare error is missing.
PrepareNoReturn ==
    /\ wpc = "prepare"
    /\ \E r \in Results("Prepare") :
        /\ calls' = Append(calls, "Prepare")
        /\ outcome' = [outcome EXCEPT !["prepare"] = r]
        /\ err' = r
        /\ st' = (r = Nil)
        /\ wpc' = "fn"
    /\ UNCHANGED <<tx, ret>>
    /\ UNCHANGED <<qvars, kvars>>

\* q.go:157-159   if st, err = tx.PrepareContext(...); err != nil { return }
Prepare ==
    /\ wpc = "prepare"
    /\ \E r \in Results("Prepare") :
        /\ calls' = Append(calls, "Prepare")
        /\ outcome' = [outcome EXCEPT !["prepare"] = r]
        /\ err' = r
        /\ st' = (r = Nil)
        /\ wpc' = IF r # Nil THEN "deferClose" ELSE "fn"
    /\ UNCHANGED <<tx, ret>>
    /\ UNCHANGED <<qvars, kvars>>

\* q.go:161-163   if err = fn(st); err != nil { return }
\* The callback appends k rows through the handle, then returns.
Callback ==
    /\ wpc = "fn"
    /\ \E k \in 0..MaxRows, r \in Results("fn") :
        /\ calls' = calls \o <<IF st THEN "fn" ELSE "fn(nil)">> \o [i \in 1..k |-> "Row"]
        /\ outcome' = [outcome EXCEPT !["fn"] = r]
        /\ err' = r
        /\ wpc' = IF r # Nil THEN "deferClose" ELSE "exec"
    /\ UNCHANGED <<tx, st, ret>>
    /\ UNCHANGED <<qvars, kvars>>

\* q.go:165-166   _, err = st.Exec(); return
Finalize ==
    /\ wpc = "exec"
    /\ \E r \in Results("Exec") :
        /\ calls' = Append(calls, "Exec")
        /\ outcome' = [outcome EXCEPT !["exec"] = r]
        /\ err' = r
    /\ wpc' = "deferClose"
    /\ UNCHANGED <<tx, st, ret>>
    /\ UNCHANGED <<qvars, kvars>>

\* Mutant of DeferClose: the handle is closed on the success path only.
DeferCloseOnSuccessOnly ==
    /\ wpc = "deferClose"
    /\ calls' = IF st /\ err = Nil THEN Append(calls, "Close") ELSE calls
    /\ wpc' = "deferResolve"
    /\ UNCHANGED <<tx, st, err, ret, outcome>>
    /\ UNCHANGED <<qvars, kvars>>

\* q.go:145-147   deferred: if st != nil { st.Close() }  (its result is dropped)
DeferClose ==
    /\ wpc = "deferClose"
    /\ calls' = IF st THEN Append(calls, "Close") ELSE calls
    /\ wpc' = "deferResolve"
    /\ UNCHANGED <<tx, st, err, ret, outcome>>
    /\ UNCHANGED <<qvars, kvars>>

\* Mutant of DeferResolve: the transaction is committed whatever err holds.
DeferResolveAlwaysCommit ==
    /\ wpc = "deferResolve"
    /\ \E r \in Results("Commit") :
        /\ calls' = Append(calls, "Commit")
        /\ outcome' = [outcome EXCEPT !["commit"] = r]
        /\ err' = IF err # Nil THEN err ELSE r
        /\ ret' = IF err # Nil THEN err ELSE r
    /\ wpc' = "done"
    /\ UNCHANGED <<tx, st>>
    /\ UNCHANGED <<qvars, kvars>>

\* Mutant of DeferResolve: err = tx.Rollback() overwrites the step's error.
DeferResolveKeepsRollbackErr ==
    /\ wpc = "deferResolve"
    /\ IF err # Nil
         THEN \E r \in Results("Rollback") :
                /\ calls' = Append(calls, "Rollback")
                /\ outcome' = [outcome EXCEPT !["rollback"] = r]
                /\ err' = r
                /\ ret' = r
         ELSE \E r \in Results("Commit") :
                /\ calls' = Append(calls, "Commit")
                /\ outcome' = [outcome EXCEPT !["commit"] = r]
                /\ err' = r
                /\ ret' = r
    /\ wpc' = "done"
    /\ UNCHANGED <<tx, st>>
    /\ UNCHANGED <<qvars, kvars>>

\* q.go:149-153   deferred: if err != nil { tx.Rollback() } else { err = tx.Commit() }
DeferResolve ==
    /\ wpc = "deferResolve"
    /\ IF err # Nil
         THEN \E r \in Results("Rollback") :
                /\ calls' = Append(calls, "Rollback")
                /\ outcome' = [outcome EXCEPT !["rollback"] = r]
                /\ err' = err
                /\ ret' = err
         ELSE \E r \in Results("Commit") :
                /\ calls' = Append(calls, "Commit")
                /\ outcome' = [outcome EXCEPT !["commit"] = r]
                /\ err' = r
                /\ ret' = r
    /\ wpc' = "done"
    /\ UNCHANGED <<tx, st>>
    /\ UNCHANGED <<qvars, kvars>>

WNext == Begin \/ Prepare \/ Callback \/ Finalize \/ DeferClose \/ DeferResolve

\* ---------------------------------------------------------------- Query
PSQL  == 0
MySQL == 1
Syntaxes == {PSQL, MySQL}

\* The arguments InsertInto is called with: two table names, and the empty
\* column list, one column, two columns in either order, and a list long
\* enough for two-digit placeholders.
Tables == {"t", "u"}
LongKeys == [i \in 1..LongLen |-> IF i % 2 = 1 THEN "a" ELSE "b"]
ExampleKeys == <<"a", "b">>
KeyLists == {<<>>, <<"a">>, ExampleKeys, <<"b", "a">>, LongKeys}

DigitChar(d) == <<"0", "1", "2", "3", "4", "5", "6", "7", "8", "9">>[d + 1]

\* strconv.Itoa, for the non-negative arguments InsertInto passes (i+1)
RECURSIVE Itoa(_)
Itoa(n) == IF n < 10 THEN DigitChar(n) ELSE Itoa(n \div 10) \o DigitChar(n % 10)

\* q.go:80-85   for i, k := range keys { if i > 0 { ',' }; WriteString(k) }
\* i is the 0-based loop index.
RECURSIVE WriteKeys(_, _, _)
WriteKeys(sb, keys, i) ==
    IF i >= Len(keys) THEN sb
    ELSE WriteKeys((IF i > 0 THEN sb \o "," ELSE sb) \o keys[i + 1], keys, i + 1)

\* Mutant of Placeholder: the positional placeholders are numbered from 0.
PlaceholderZeroBased(syn, i) == IF syn = 0 THEN "$" \o Itoa(i) ELSE "?"

\* q.go:93-98   switch q.Syntax { case 0: "$"+Itoa(i+1)  default: '?' }
Placeholder(syn, i) == IF syn = 0 THEN "$" \o Itoa(i + 1) ELSE "?"

\* q.go:88-99   for i := 0; i < len(keys); i++ { if i > 0 { ',' }; placeholder }
RECURSIVE WritePlaceholders(_, _, _, _)
WritePlaceholders(sb, syn, n, i) ==
    IF i >= n THEN sb
    ELSE WritePlaceholders((IF i > 0 THEN sb \o "," ELSE sb) \o Placeholder(syn, i),
                           syn, n, i + 1)

\* q.go:102-105   switch q.Syntax { case 0: " RETURNING id" }
WriteSuffix(sb, syn) == IF syn = 0 THEN sb \o " RETURNING id" ELSE sb

\* Mutant of InsertIntoText: the len(keys) == 0 check is missing.
InsertIntoTextNoCheck(sb, syn, tbl, keys) ==
    [panic |-> FALSE,
     sb |-> WriteSuffix(
              WritePlaceholders(
                WriteKeys(sb \o "INSERT INTO " \o tbl \o " (", keys, 0)
                  \o ") VALUES (",
                syn, Len(keys), 0) \o ")",
              syn)]

\* q.go:70-108   the text InsertInto leaves in the buffer, or the panic
InsertIntoText(sb, syn, tbl, keys) ==
    IF Len(keys) = 0
      THEN [panic |-> TRUE, sb |-> sb]
      ELSE [panic |-> FALSE,
            sb |-> WriteSuffix(
                     WritePlaceholders(
                       WriteKeys(sb \o "INSERT INTO " \o tbl \o " (", keys, 0)
                         \o ") VALUES (",
                       syn, Len(keys), 0) \o ")",
                     syn)]

\* q.go:125   func (q *Query) String() string
String(q) == bufs[queries[q].buf]

Texts == [q \in 1..Len(queries) |-> String(q)]
NoOp == [op |-> "none", q |-> 0, src |-> 0, panic |-> FALSE,
         tbl |-> "", keys |-> <<>>, pre |-> <<>>]

QInit ==
    /\ queries = <<>>
    /\ bufs = <<>>
    /\ ninserts = 0
    /\ lastOp = NoOp
    /\ copiedFrom = <<>>

\* q.go:61-63   return &Query{Syntax: syn}
NewQuery(syn) ==
    /\ Len(queries) < MaxQueries
    /\ bufs' = Append(bufs, "")
    /\ UNCHANGED ninserts
    /\ queries' = Append(queries, [buf |-> Len(bufs) + 1, Syntax |-> syn])
    /\ lastOp' = [NoOp EXCEPT !.op = "NewQuery", !.q = Len(queries) + 1, !.pre = Texts]
    /\ copiedFrom' = Append(copiedFrom, 0)
    /\ UNCHANGED <<wvars, kvars>>

\* q.go:70-108
InsertInto(q, tbl, keys) ==
    /\ ninserts < MaxInserts
    /\ LET b == queries[q].buf
           r == InsertIntoText(bufs[b], queries[q].Syntax, tbl, keys)
       IN /\ bufs' = [bufs EXCEPT ![b] = r.sb]
          /\ ninserts' = ninserts + 1
          /\ lastOp' = [op |-> "InsertInto", q |-> q, src |-> 0, panic |-> r.panic,
                        tbl |-> tbl, keys |-> keys, pre |-> Texts]
    /\ UNCHANGED <<queries, copiedFrom>>
    /\ UNCHANGED <<wvars, kvars>>

\* Mutant of Copy: the new builder keeps writing into the source's buffer.
CopyShared(q) ==
    /\ Len(queries) < MaxQueries
    /\ queries' = Append(queries, [buf |-> queries[q].buf, Syntax |-> queries[q].Syntax])
    /\ lastOp' = [NoOp EXCEPT !.op = "Copy", !.q = Len(queries) + 1, !.src = q,
                              !.pre = Texts]
    /\ copiedFrom' = Append(copiedFrom, q)
    /\ UNCHANGED <<bufs, ninserts>>
    /\ UNCHANGED <<wvars, kvars>>

\* q.go:127-132   nq := NewQuery(q.Syntax); nq.sb.WriteString(q.String())
Copy(q) ==
    /\ Len(queries) < MaxQueries
    /\ bufs' = Append(bufs, "" \o String(q))
    /\ UNCHANGED ninserts
    /\ queries' = Append(queries, [buf |-> Len(bufs) + 1, Syntax |-> queries[q].Syntax])
    /\ lastOp' = [NoOp EXCEPT !.op = "Copy", !.q = Len(queries) + 1, !.src = q,
                              !.pre = Texts]
    /\ copiedFrom' = Append(copiedFrom, q)
    /\ UNCHANGED <<wvars, kvars>>

QNext ==
    \/ \E syn \in Syntaxes : NewQuery(syn)
    \/ \E q \in 1..Len(queries), tbl \in Tables, keys \in KeyLists : InsertInto(q, tbl, keys)
    \/ \E q \in 1..Len(queries) : Copy(q)

\* ------------------------------------------------------------ StructToKVs
\* Field names and tag values are sequences of one-character strings.
UpperChars == {"A", "B"}
LowerChars == {"a", "b", "j", "o", "s"}
Comma == ","

FieldNames == {<<"A", "b">>, <<"a", "B">>, <<"_">>}
SqlTags  == {<<>>, <<"s">>, <<"s", ",", "o">>, <<",", "o">>}
JsonTags == {<<>>, <<"j", ",", "o">>, <<",", "o">>}
Vals == {1, 2}

\* reflect.StructField together with the field's current value
Fields == [Name : FieldNames, sql : SqlTags, json : JsonTags, val : Vals]
Records == UNION {[1..n -> Fields] : n \in 0..MaxFields}
Inputs == [kind : {"struct", "ptr"}, fields : Records]
            \cup {[kind |-> "int", fields |-> <<>>]}

\* unicode.IsLower
IsLower(c) == c \in LowerChars
\* unicode.IsUpper: Go exports a field exactly when its name starts with one
IsUpper(c) == c \in UpperChars

\* strings.Split(n, ","): the parts of n between commas, in order
RECURSIVE SplitFrom(_, _, _)
SplitFrom(n, i, cur) ==
    IF i > Len(n) THEN <<cur>>
    ELSE IF n[i] = Comma THEN <<cur>> \o SplitFrom(n, i + 1, <<>>)
    ELSE SplitFrom(n, i + 1, Append(cur, n[i]))
Split(n) == SplitFrom(n, 1, <<>>)

\* reflect.StructTag.Get(key): the tag's value under key, "" when it has none
TagGet(t, key) == IF key = "sql" THEN t.sql ELSE t.json

\* Mutant of getName: a tag whose name part is empty falls through to the
\* next source of the name, as encoding/json does.
getNameFallThrough(t) ==
    IF t.Name = <<>> \/ IsLower(t.Name[1]) THEN <<>>
    ELSE IF TagGet(t, "sql") # <<>> /\ Split(TagGet(t, "sql"))[1] # <<>>
      THEN Split(TagGet(t, "sql"))[1]
    ELSE IF TagGet(t, "json") # <<>> /\ Split(TagGet(t, "json"))[1] # <<>>
      THEN Split(TagGet(t, "json"))[1]
    ELSE t.Name

\* q.go:35-52
getName(t) ==
    IF t.Name = <<>> \/ IsLower(t.Name[1]) THEN <<>>
    ELSE IF TagGet(t, "sql") # <<>> /\ Len(Split(TagGet(t, "sql"))) > 0
      THEN Split(TagGet(t, "sql"))[1]
    ELSE IF TagGet(t, "json") # <<>> /\ Len(Split(TagGet(t, "json"))) > 0
      THEN Split(TagGet(t, "json"))[1]
    ELSE t.Name

\* q.go:30   rv.Field(i).Interface(): reflect panics on a field that is not
\* exported (one whose name does not start with an upper-case letter)
CanInterface(t) == t.Name # <<>> /\ IsUpper(t.Name[1])

\* q.go:24-31   the loop over the fields; i is the 0-based index
RECURSIVE KVLoop(_, _, _, _)
KVLoop(fields, i, keys, values) ==
    IF i >= Len(fields) THEN [status |-> "returned", keys |-> keys, values |-> values]
    ELSE LET name == getName(fields[i + 1]) IN
         IF name = <<>> THEN KVLoop(fields, i + 1, keys, values)
         ELSE IF ~CanInterface(fields[i + 1])
           THEN [status |-> "panic", keys |-> Append(keys, name), values |-> values]
         ELSE KVLoop(fields, i + 1, Append(keys, name),
                     Append(values, fields[i + 1].val))

\* q.go:15-33
StructToKVsResult(v) ==
    IF v.kind \notin {"struct", "ptr"}
      THEN [status |-> "panic", keys |-> <<>>, values |-> <<>>]
      ELSE KVLoop(v.fields, 0, <<>>, <<>>)

NoInput == [kind |-> "none", fields |-> <<>>]
KInit ==
    /\ kvIn = NoInput
    /\ kvOut = [status |-> "none", keys |-> <<>>, values |-> <<>>]

StructToKVs(v) ==
    /\ kvIn' = v
    /\ kvOut' = StructToKVsResult(v)
    /\ UNCHANGED <<wvars, qvars>>

\* One call per run: the argument is chosen and the whole function runs.
KNext == kvOut.status = "none" /\ \E v \in Inputs : StructToKVs(v)

Init == WInit /\ QInit /\ KInit

SpecW == Init /\ [][WNext]_vars
SpecQ == Init /\ [][QNext]_vars
SpecK == Init /\ [][KNext]_vars

\* ================================================================ claims
\* ------------------------------------------------------------ WrapCopyIn
Called(c) == Count(calls, c) > 0
Failed(s) == outcome[s] # Nil /\ outcome[s] # NotRun
AllSucceeded == outcome["prepare"] = Nil /\ outcome["fn"] = Nil /\ outcome["exec"] = Nil
AnyFailed == Failed("prepare") \/ Failed("fn") \/ Failed("exec")

\* C1: Commit is called iff prepare, the callback and finalize all succeeded,
\* and then exactly once with no Rollback; if one of the three fails, Rollback
\* is called exactly once and Commit never.
C1_CommitIffAllSucceeded ==
    /\ Count(calls, "Commit") <= 1
    /\ Count(calls, "Rollback") <= 1
    /\ Called("Commit") => AllSucceeded /\ ~Called("Rollback")
    /\ Called("Rollback") => AnyFailed /\ ~Called("Commit")
    /\ wpc = "done" /\ AllSucceeded => Count(calls, "Commit") = 1
    /\ wpc = "done" /\ AnyFailed => Count(calls, "Rollback") = 1

\* C1 witness: finalize failed after prepare and the callback succeeded, and
\* the run ended with one Rollback.
C1_Witness ==
    /\ wpc = "done"
    /\ outcome["prepare"] = Nil /\ outcome["fn"] = Nil /\ Failed("exec")
    /\ Count(calls, "Rollback") = 1

\* C2: when prepare succeeded, the statement handle is closed exactly once
\* before WrapCopyIn returns, and before the transaction's Commit or Rollback.
C2_ClosedOnceBeforeResolve ==
    /\ Count(calls, "Close") <= 1
    /\ outcome["prepare"] = Nil /\ (wpc = "done" \/ Called("Commit") \/ Called("Rollback"))
         => /\ Count(calls, "Close") = 1
            /\ Called("Commit") => Pos(calls, "Close") < Pos(calls, "Commit")
            /\ Called("Rollback") => Pos(calls, "Close") < Pos(calls, "Rollback")

\* C2 witness: the callback failed on a prepared handle and the run ended.
C2_Witness ==
    /\ wpc = "done"
    /\ outcome["prepare"] = Nil /\ Failed("fn")
    /\ Called("Close") /\ Called("Rollback")

\* The error of the step that failed (the steps stop at the first failure).
StepError ==
    IF Failed("prepare") THEN outcome["prepare"]
    ELSE IF Failed("fn") THEN outcome["fn"]
    ELSE outcome["exec"]

\* C3: when prepare, the callback or finalize fails, WrapCopyIn returns that
\* step's own error whatever Rollback returns: never Rollback's error, never nil.
C3_StepErrorReturned ==
    wpc = "done" /\ AnyFailed
      => /\ ret = StepError
         /\ ret # Nil
         /\ ret \notin Errs("Rollback")

\* C3 witness: the callback failed and then Rollback failed too.
C3_Witness ==
    /\ wpc = "done"
    /\ Failed("fn")
    /\ Failed("rollback")

\* C10: the steps run in the order begin, prepare, callback, finalize and stop
\* at the first failure; the callback runs at most once, after begin and
\* prepare succeeded and with a statement handle; finalize is issued only
\* after the callback returned success; when begin fails nothing else is
\* called and the begin error is returned.
C10_StepOrder ==
    /\ ~Called("fn(nil)")
    /\ Count(calls, "fn") <= 1
    /\ Called("Prepare")
         => outcome["begin"] = Nil /\ Pos(calls, "Begin") < Pos(calls, "Prepare")
    /\ Called("fn")
         => /\ outcome["begin"] = Nil /\ outcome["prepare"] = Nil /\ st
            /\ Called("Prepare") /\ Pos(calls, "Prepare") < Pos(calls, "fn")
    /\ Called("Exec")
         => /\ outcome["fn"] = Nil
            /\ Called("fn") /\ Pos(calls, "fn") < Pos(calls, "Exec")
            /\ Count(calls, "Exec") = 1
    /\ Failed("prepare") => ~Called("fn") /\ ~Called("Exec")
    /\ Failed("fn") => ~Called("Exec")
    /\ Failed("begin") => calls = <<"Begin">> /\ wpc = "done" /\ ret = outcome["begin"]

\* C10 witness: a complete run in which the callback appended rows and
\* finalize was issued.
C10_Witness ==
    /\ wpc = "done"
    /\ Called("Row") /\ Called("Exec")

\* ---------------------------------------------------------------- Query
Decimal == <<"1", "2", "3", "4", "5", "6", "7", "8", "9", "10",
             "11", "12", "13", "14", "15", "16", "17", "18", "19", "20">>

\* The elements of a sequence of strings, separated by commas.
RECURSIVE JoinComma(_)
JoinComma(xs) ==
    IF Len(xs) = 0 THEN ""
    ELSE IF Len(xs) = 1 THEN xs[1]
    ELSE JoinComma(SubSeq(xs, 1, Len(xs) - 1)) \o "," \o xs[Len(xs)]

ExpectedInsert(syn, tbl, keys) ==
    "INSERT INTO " \o tbl \o " (" \o JoinComma(keys) \o ") VALUES ("
      \o JoinComma([i \in 1..Len(keys) |-> IF syn = PSQL THEN "$" \o Decimal[i] ELSE "?"])
      \o ")" \o (IF syn = PSQL THEN " RETURNING id" ELSE "")

InsertedFresh ==
    /\ lastOp.op = "InsertInto"
    /\ ~lastOp.panic
    /\ lastOp.pre[lastOp.q] = ""

\* C4: InsertInto on a fresh builder with columns c1..cn leaves exactly
\* 'INSERT INTO <table> (c1,...,cn) VALUES (p1,...,pn)<suffix>': pi is '$i'
\* and the suffix ' RETURNING id' for PSQL, pi is '?' and no suffix otherwise.
C4_InsertText ==
    InsertedFresh =>
      LET syn == queries[lastOp.q].Syntax
          txt == String(lastOp.q)
      IN /\ txt = ExpectedInsert(syn, lastOp.tbl, lastOp.keys)
         /\ lastOp.tbl = "t" /\ lastOp.keys = <<"a", "b">> /\ syn = PSQL
              => txt = "INSERT INTO t (a,b) VALUES ($1,$2) RETURNING id"
         /\ lastOp.tbl = "t" /\ lastOp.keys = <<"a", "b">> /\ syn = MySQL
              => txt = "INSERT INTO t (a,b) VALUES (?,?)"

\* C4 witness: a fresh PSQL builder was given the long column list, so the
\* placeholders run into two digits.
C4_Witness ==
    /\ InsertedFresh
    /\ queries[lastOp.q].Syntax = PSQL
    /\ lastOp.keys = LongKeys

\* C5: Copy returns a new builder with the source's dialect and the source's
\* text at the time of the copy; afterwards InsertInto on either of them
\* leaves the other's text unchanged.
C5_CopyIndependent ==
    /\ lastOp.op = "Copy"
         => /\ lastOp.q = Len(lastOp.pre) + 1
            /\ queries[lastOp.q].Syntax = queries[lastOp.src].Syntax
            /\ String(lastOp.q) = lastOp.pre[lastOp.src]
            /\ String(lastOp.src) = lastOp.pre[lastOp.src]
    /\ lastOp.op = "InsertInto"
         => \A p \in 1..Len(queries) : p # lastOp.q => String(p) = lastOp.pre[p]

\* C5 witness: InsertInto wrote into a copy of a builder that holds a
\* statement (and so into a text the two had in common).
C5_Witness ==
    /\ lastOp.op = "InsertInto" /\ ~lastOp.panic
    /\ copiedFrom[lastOp.q] # 0
    /\ lastOp.pre[lastOp.q] # ""
    /\ lastOp.pre[lastOp.q] = String(copiedFrom[lastOp.q])

\* C8: under both dialects InsertInto with no columns panics and leaves the
\* builder's text as it was.
C8_EmptyColumnsPanic ==
    lastOp.op = "InsertInto" /\ lastOp.keys = <<>>
      => lastOp.panic /\ String(lastOp.q) = lastOp.pre[lastOp.q]

\* C8 witness: the call with no columns was made on a builder holding text.
C8_Witness ==
    /\ lastOp.op = "InsertInto" /\ lastOp.keys = <<>>
    /\ lastOp.pre[lastOp.q] # ""

\* ----------------------------------------------------------- StructToKVs
IsStruct == kvIn.kind \in {"struct", "ptr"}

\* A field Go exports: its name starts with an upper-case letter.
Exported(f) == f.Name # <<>> /\ f.Name[1] \in UpperChars

\* The part of a tag before its first comma.
FirstComma(tag) ==
    CHOOSE i \in 1..(Len(tag) + 1) :
      /\ i = Len(tag) + 1 \/ tag[i] = Comma
      /\ \A j \in 1..(i - 1) : tag[j] # Comma
BeforeComma(tag) == SubSeq(tag, 1, FirstComma(tag) - 1)

\* The name by the precedence sql tag, json tag, declared name.
Resolve(f) ==
    IF f.sql # <<>> THEN BeforeComma(f.sql)
    ELSE IF f.json # <<>> THEN BeforeComma(f.json)
    ELSE f.Name

\* names[i] and values[i] come from one field, in declaration order.
Corresponds(fields, names, values) ==
    /\ Len(names) = Len(values)
    /\ \E m \in [1..Len(names) -> 1..Len(fields)] :
         /\ \A i, j \in 1..Len(names) : i < j => m[i] < m[j]
         /\ \A i \in 1..Len(names) :
              /\ names[i] = Resolve(fields[m[i]])
              /\ values[i] = fields[m[i]].val

\* C6 (as claimed): for every struct record StructToKVs returns names and
\* values of equal length, in declaration order, the i-th name and value from
\* the same field, each name resolved by sql tag, json tag, declared name and
\* cut at the tag's first comma.
C6_Claim ==
    IsStruct /\ kvOut.status # "none"
      => /\ kvOut.status = "returned"
         /\ Corresponds(kvIn.fields, kvOut.keys, kvOut.values)

\* What holds of C6: whenever StructToKVs returns, its result corresponds to
\* the record's fields as C6 says.
KV_ReturnedCorresponds ==
    IsStruct /\ kvOut.status = "returned"
      => Corresponds(kvIn.fields, kvOut.keys, kvOut.values)

\* C7 (as claimed): a field that is not exported is skipped: the result is
\* the one the record gives without its non-exported fields.
C7_Claim ==
    IsStruct /\ kvOut.status # "none"
      => kvOut = StructToKVsResult([kvIn EXCEPT !.fields = SelectSeq(kvIn.fields, Exported)])

\* What holds of C7: a field whose name starts with a lower-case letter is
\* skipped.
LowerFirst(f) == f.Name # <<>> /\ f.Name[1] \in LowerChars
NotLowerFirst(f) == ~LowerFirst(f)
KV_LowerCaseSkipped ==
    IsStruct /\ kvOut.status # "none"
      => kvOut = StructToKVsResult([kvIn EXCEPT !.fields = SelectSeq(kvIn.fields, NotLowerFirst)])

\* An exported field whose deciding tag is non-empty and has nothing before
\* its first comma.
EmptyTagName(f) ==
    /\ Exported(f)
    /\ \/ f.sql # <<>> /\ BeforeComma(f.sql) = <<>>
       \/ f.sql = <<>> /\ f.json # <<>> /\ BeforeComma(f.json) = <<>>
HasTagName(f) == ~EmptyTagName(f)
EmptyTagFields == {i \in 1..Len(kvIn.fields) : EmptyTagName(kvIn.fields[i])}

====
